---- MODULE Spec2Model ----
(***************************************************************************)
(* Model of the MySQL test-fixture lifecycle script                        *)
(*   airbyte-integrations/connectors/source-mysql/integration_tests/seed/  *)
(*   hook.py                                                               *)
(* Every command-line invocation (prepare, setup, setup_cdc, insert,       *)
(* teardown, final_teardown) is one action.  The state is what survives    *)
(* between invocations: the database server, ./generated_schema.txt, the   *)
(* generated support files, the wall clock, and a record of what the most  *)
(* recent invocation did (its event log and exit status).                  *)
(***************************************************************************)
EXTENDS Integers, Sequences, FiniteSets, TLC

VARIABLES
    today,      \* the current day of the clock in America/Los_Angeles
    file,       \* the contents of ./generated_schema.txt (NoFile: missing)
    support,    \* the schema name in the files write_supporting_file wrote
    db,         \* the database server: schema name -> tables -> rows
    last,       \* what the most recent command invocation did
    prepared,   \* history: the name the most recent prepare generated
    faults      \* history: the number of faults injected so far

vars == <<today, file, support, db, last, prepared, faults>>

----------------------------------------------------------------------------
(* Bounds of the model                                                     *)

\* the clock runs over the days 1..MaxDay
MaxDay == 3
\* number of distinct random suffixes the generator can draw
MaxSuffix == 1
\* number of faults (failed connections, rejected statements) the environment
\* injects in one behaviour
MaxFaults == 1

----------------------------------------------------------------------------
(* Characters and calendar                                                 *)

DigitChars == <<"0", "1", "2", "3", "4", "5", "6", "7", "8", "9">>

\* string.ascii_lowercase + string.digits, in that order
Alphabet ==
    <<"a", "b", "c", "d", "e", "f", "g", "h", "i", "j", "k", "l", "m",
      "n", "o", "p", "q", "r", "s", "t", "u", "v", "w", "x", "y", "z">>
    \o DigitChars

\* k=8 in random.choices
SuffixLen == 8

\* calendar date of day 0 of the clock (day 1, the first "today", is the
\* day before a leap day, so that the window crosses a month boundary)
Epoch == [y |-> 2024, m |-> 2, d |-> 27]

IsLeap(y) == (y % 4 = 0 /\ y % 100 # 0) \/ y % 400 = 0

DaysInMonth(y, m) ==
    IF m = 2 THEN (IF IsLeap(y) THEN 29 ELSE 28)
    ELSE IF m \in {4, 6, 9, 11} THEN 30 ELSE 31

NextDate(dt) ==
    IF dt.d < DaysInMonth(dt.y, dt.m) THEN [dt EXCEPT !.d = @ + 1]
    ELSE IF dt.m < 12 THEN [y |-> dt.y, m |-> dt.m + 1, d |-> 1]
    ELSE [y |-> dt.y + 1, m |-> 1, d |-> 1]

\* the calendar date of clock day n (datetime arithmetic is done on day
\* ordinals and converted back to year/month/day)
RECURSIVE fromordinal(_)
fromordinal(n) == IF n = 0 THEN Epoch ELSE NextDate(fromordinal(n - 1))

\* the decimal digit character of the units of n
Digit(n) == DigitChars[(n % 10) + 1]

\* strftime("%Y%m%d"): zero-padded year, month, day as eight digit characters
strftime(dt) ==
    <<Digit(dt.y \div 1000), Digit(dt.y \div 100), Digit(dt.y \div 10), Digit(dt.y),
      Digit(dt.m \div 10), Digit(dt.m),
      Digit(dt.d \div 10), Digit(dt.d)>>

\* mutation: the day is used as it is
timedelta_none(day, n) == day

\* today - timedelta(days=n)
timedelta_days_back(day, n) == day - n

\* the i-th suffix the generator can draw: SuffixLen characters of Alphabet
RandomSuffix(i) == [j \in 1..SuffixLen |-> IF j = SuffixLen THEN Alphabet[i] ELSE Alphabet[1]]

\* f"{current_date}_{suffix}"
generate_schema_date_with_suffix(day, i) ==
    strftime(fromordinal(day)) \o <<"_">> \o RandomSuffix(i)

----------------------------------------------------------------------------
(* The database server                                                     *)
(* db maps each existing schema name to its tables; a schema's tables map  *)
(* a table name to the sequence of its rows (in insertion order).          *)

NoTables == [t \in {} |-> <<>>]

\* a schema every MySQL server has
SystemSchema == <<"m", "y", "s", "q", "l">>

\* schemas other users of the server may own: a generated name with one
\* more character, and one with another character in the place of "_"
ForeignSchemas ==
    { generate_schema_date_with_suffix(1, 1) \o <<"x">>,
      [generate_schema_date_with_suffix(1, 1)
          EXCEPT ![Len(strftime(fromordinal(1))) + 1] = "x"] }

\* the schema of another test run that was prepared and set up on day 1
\* with a suffix this run does not draw
OtherRunSchema == generate_schema_date_with_suffix(1, MaxSuffix + 1)

\* SQL LIKE: "%" matches any run of characters, "_" any one character
RECURSIVE Like(_, _)
Like(s, p) ==
    IF p = <<>> THEN s = <<>>
    ELSE IF Head(p) = "%"
         THEN Like(s, Tail(p)) \/ (s # <<>> /\ Like(Tail(s), p))
         ELSE /\ s # <<>>
              /\ (Head(p) = "_" \/ Head(p) = Head(s))
              /\ Like(Tail(s), Tail(p))

\* CREATE DATABASE IF NOT EXISTS
CreateDatabase(d, schema_name) ==
    IF schema_name \in DOMAIN d THEN d ELSE d @@ (schema_name :> NoTables)

\* CREATE TABLE IF NOT EXISTS needs the schema to exist
CanCreateTable(d, schema_name) == schema_name \in DOMAIN d

CreateTable(d, schema_name, table_name) ==
    IF table_name \in DOMAIN d[schema_name] THEN d
    ELSE [d EXCEPT ![schema_name] = @ @@ (table_name :> <<>>)]

HasTable(d, schema_name, table_name) ==
    schema_name \in DOMAIN d /\ table_name \in DOMAIN d[schema_name]

\* mutation: a plain INSERT into a table without the primary key
UpsertAlways(rows, record) == Append(rows, record)

\* mutation: REPLACE INTO deletes the row of the same id and inserts anew
UpsertReplace(rows, record) ==
    Append(SelectSeq(rows, LAMBDA r : r[1] # record[1]), record)

\* INSERT ... ON DUPLICATE KEY UPDATE id=id, with id the primary key: a
\* record whose id is in the table changes nothing

Upsert(rows, record) ==
    IF \E i \in 1..Len(rows) : rows[i][1] = record[1] THEN rows
    ELSE Append(rows, record)

RECURSIVE UpsertAll(_, _)
UpsertAll(rows, records) ==
    IF records = <<>> THEN rows
    ELSE UpsertAll(Upsert(rows, Head(records)), Tail(records))

\* DROP DATABASE IF EXISTS for every name of a set
DropDatabases(d, names) == [n \in (DOMAIN d) \ names |-> d[n]]

\* conn.commit(): the transaction's work becomes the database
conn_commit(committed, work) == work

\* mutation: every statement is committed as it is executed
conn_rollback_keep(committed, work) == work

\* conn.rollback(): the transaction's work is discarded

conn_rollback(committed, work) == committed

----------------------------------------------------------------------------
(* The helpers of hook.py.  A helper takes the invocation's context c (the *)
(* database and the log of what the process has done so far) and returns   *)
(* the context after it.  Log events: the helper's name on entry,          *)
(* "connect" / "connect_error", "execute" per statement sent, "error" per  *)
(* mysql Error caught, "commit", "rollback", "cursor_close", "close" for   *)
(* connection.close(), "sys_exit" for sys.exit(1), "exception" for an      *)
(* exception nothing catches.                                              *)

NoName == <<>>

table_name == "id_and_name_cat"

\* setup(): records
SeedRecords == << <<"1", "one">>, <<"2", "two">>, <<"3", "three">> >>

\* cdc_insert(): new_records
NewRecords == << <<"4", "four">>, <<"5", "five">> >>

Events(n, e) == [i \in 1..n |-> e]

Has(log, e) == \E i \in 1..Len(log) : log[i] = e

Count(log, e) == Cardinality({i \in 1..Len(log) : log[i] = e})

\* the process has ended inside a helper
Exited(c) == Has(c.log, "sys_exit") \/ Has(c.log, "exception")

\* exit status of the process: sys.exit(1) and an uncaught exception give 1
ExitStatus(log) == IF Has(log, "sys_exit") \/ Has(log, "exception") THEN 1 ELSE 0

\* mutation: the name is generated anew instead of read back
load_regenerated == generate_schema_date_with_suffix(today, 1)

\* with open("./generated_schema.txt", "r") as f: return f.read()
load_schema_name_from_catalog == file

\* mutation: the connection error is printed and the process goes on
connect_to_db_no_exit(c, fault) ==
    IF fault THEN [c EXCEPT !.log = @ \o <<"connect_error">>]
    ELSE [c EXCEPT !.log = @ \o <<"connect">>]

\* fault: mysql.connector.connect raises; the error is printed and the
\* process ends with sys.exit(1)
connect_to_db(c, fault) ==
    IF fault THEN [c EXCEPT !.log = @ \o <<"connect_error", "sys_exit">>]
    ELSE [c EXCEPT !.log = @ \o <<"connect">>]

\* mutation: the error is not caught
create_schema_raise(c, schema_name, fault) ==
    IF fault
    THEN [c EXCEPT !.log = @ \o <<"create_schema", "execute", "exception">>]
    ELSE [db  |-> conn_commit(c.db, CreateDatabase(c.db, schema_name)),
          log |-> c.log \o <<"create_schema", "execute", "commit", "cursor_close">>]

\* fault: the server rejects the statement
create_schema(c, schema_name, fault) ==
    IF fault
    THEN [db  |-> conn_rollback(c.db, c.db),
          log |-> c.log \o <<"create_schema", "execute", "error", "rollback",
                             "cursor_close">>]
    ELSE [db  |-> conn_commit(c.db, CreateDatabase(c.db, schema_name)),
          log |-> c.log \o <<"create_schema", "execute", "commit", "cursor_close">>]

\* the statement fails when the schema does not exist, or on a fault
create_table(c, schema_name, tname, fault) ==
    IF fault \/ ~CanCreateTable(c.db, schema_name)
    THEN [db  |-> conn_rollback(c.db, c.db),
          log |-> c.log \o <<"create_table", "execute", "error", "rollback",
                             "cursor_close">>]
    ELSE [db  |-> conn_commit(c.db, CreateTable(c.db, schema_name, tname)),
          log |-> c.log \o <<"create_table", "execute", "commit", "cursor_close">>]

\* failAt: the record whose execute the server rejects (0: none); every
\* execute fails when the table does not exist.  The loop stops at the first
\* failing execute; the commit follows the loop.
insert_records(c, schema_name, tname, records, failAt) ==
    LET exists == HasTable(c.db, schema_name, tname)
        bad    == IF ~exists THEN 1 ELSE failAt
        done   == IF bad = 0 THEN Len(records) ELSE bad - 1
        sent   == IF bad = 0 THEN Len(records) ELSE bad
        work   == IF exists
                  THEN [c.db EXCEPT ![schema_name][tname] =
                            UpsertAll(@, SubSeq(records, 1, done))]
                  ELSE c.db
    IN  IF bad = 0
        THEN [db  |-> conn_commit(c.db, work),
              log |-> c.log \o <<"insert_records">> \o Events(sent, "execute")
                            \o <<"commit", "cursor_close">>]
        ELSE [db  |-> conn_rollback(c.db, work),
              log |-> c.log \o <<"insert_records">> \o Events(sent, "execute")
                            \o <<"error", "rollback", "cursor_close">>]

\* mutation: the SELECT has no WHERE clause
MatchingSchemasAll(d, date_prefix) == DOMAIN d

\* the schemas the SELECT ... LIKE '{date_prefix}%' returns
MatchingSchemas(d, date_prefix) ==
    {n \in DOMAIN d : Like(n, date_prefix \o <<"%">>)}

\* selFault: the SELECT fails.  dropFault: a DROP fails after the schemas of
\* dropped (a strict part of the matching ones) were dropped; DROP DATABASE
\* takes effect at once, so those stay dropped.
delete_schemas_with_prefix(c, date_prefix, selFault, dropFault, dropped) ==
    LET schemas == MatchingSchemas(c.db, date_prefix)
    IN  IF selFault
        THEN [c EXCEPT !.log = @ \o <<"delete_schemas_with_prefix", "execute",
                                      "error", "sys_exit", "cursor_close">>]
        ELSE IF dropFault
        THEN [db  |-> DropDatabases(c.db, dropped),
              log |-> c.log \o <<"delete_schemas_with_prefix", "execute">>
                            \o Events(Cardinality(dropped) + 1, "execute")
                            \o <<"error", "sys_exit", "cursor_close">>]
        ELSE [db  |-> conn_commit(c.db, DropDatabases(c.db, schemas)),
              log |-> c.log \o <<"delete_schemas_with_prefix", "execute">>
                            \o Events(Cardinality(schemas), "execute")
                            \o <<"commit", "cursor_close">>]

\* connection.close()
connection_close(c) == [c EXCEPT !.log = @ \o <<"close">>]

\* write_supporting_file: the three copies and the two active configs all
\* receive schema_name; support is the name they hold
write_supporting_file(schema_name) == schema_name

----------------------------------------------------------------------------
(* The commands.  Each returns the context at the end of the process.      *)

\* ./generated_schema.txt does not exist
NoFile == <<>>

Start == [db |-> db, log |-> <<>>]

\* open() of a file that does not exist raises, and nothing catches it
Uncaught(c) == [c EXCEPT !.log = @ \o <<"exception">>]

\* the rest of the process runs only if the process has not ended
Then(c, rest) == IF Exited(c) THEN c ELSE rest

setup(schema_name, connFault, schemaFault, tableFault, failAt) ==
    LET c1 == connect_to_db(Start, connFault)
        c2 == create_schema(c1, schema_name, schemaFault)
        c3 == create_table(c2, schema_name, table_name, tableFault)
        c4 == insert_records(c3, schema_name, table_name, SeedRecords, failAt)
    IN  Then(c1, Then(c2, Then(c3, Then(c4, connection_close(c4)))))

cdc_insert(schema_name, connFault, failAt) ==
    LET c1 == connect_to_db(Start, connFault)
        c2 == insert_records(c1, schema_name, table_name, NewRecords, failAt)
    IN  Then(c1, Then(c2, connection_close(c2)))

\* formatted_yesterday
Yesterday(day) == strftime(fromordinal(timedelta_days_back(day, 1)))

teardown(connFault, selFault, dropFault, dropped) ==
    LET c1 == connect_to_db(Start, connFault)
    IN  Then(c1, delete_schemas_with_prefix(c1, Yesterday(today), selFault,
                                            dropFault, dropped))

final_teardown(connFault, selFault, dropFault, dropped) ==
    LET c1 == connect_to_db(Start, connFault)
        schema_name == load_schema_name_from_catalog
    IN  Then(c1, IF schema_name = NoFile THEN Uncaught(c1)
                 ELSE delete_schemas_with_prefix(c1, schema_name, selFault,
                                                 dropFault, dropped))

----------------------------------------------------------------------------
(* State machine                                                           *)

\* what the most recent invocation did: its command, the schema name it
\* read from the file, the prefix it deleted by, and its log
Ran(cmd, schema_name, prefix, log) ==
    [cmd |-> cmd, schema |-> schema_name, prefix |-> prefix, log |-> log]

Init ==
    /\ today = 1
    /\ file = NoFile
    /\ support = NoName
    /\ prepared = NoName
    /\ faults = 0
    /\ \E S \in SUBSET ForeignSchemas, other \in BOOLEAN :
          db = [n \in S \cup {SystemSchema} |-> NoTables]
               @@ (IF other THEN OtherRunSchema :> (table_name :> SeedRecords)
                   ELSE SystemSchema :> NoTables)
    /\ last = Ran("none", NoName, NoName, <<>>)

\* the wall clock (America/Los_Angeles) passes midnight
Tick ==
    /\ today < MaxDay
    /\ today' = today + 1
    /\ UNCHANGED <<file, support, db, last, prepared, faults>>

Prepare ==
    \E i \in 1..MaxSuffix :
        LET schema_name == generate_schema_date_with_suffix(today, i)
        IN  /\ file' = schema_name
            /\ prepared' = schema_name
            /\ last' = Ran("prepare", NoName, NoName, <<>>)
            /\ UNCHANGED <<today, support, db, faults>>

B(b) == IF b THEN 1 ELSE 0

\* the environment injects the faults of f if its budget allows
Inject(n) == n <= MaxFaults - faults /\ faults' = faults + n

\* the faults the environment can inject into one setup: the connection
\* fails, or any of the three guarded helpers has its statement rejected
SetupFaults ==
    {[conn |-> TRUE, schema |-> FALSE, table |-> FALSE, failAt |-> 0]}
    \cup [conn : {FALSE}, schema : BOOLEAN, table : BOOLEAN,
          failAt : 0..Len(SeedRecords)]

SetupAs(cmd) ==
    LET schema_name == load_schema_name_from_catalog
    IN  IF schema_name = NoFile
        THEN /\ last' = Ran(cmd, NoName, NoName, <<"exception">>)
             /\ UNCHANGED <<today, file, support, db, prepared, faults>>
        ELSE \E f \in SetupFaults :
                LET c == setup(schema_name, f.conn, f.schema, f.table, f.failAt)
                IN  /\ Inject(B(f.conn) + B(f.schema) + B(f.table) + B(f.failAt > 0))
                    /\ support' = write_supporting_file(schema_name)
                    /\ db' = c.db
                    /\ last' = Ran(cmd, schema_name, NoName, c.log)
                    /\ UNCHANGED <<today, file, prepared>>

Setup == SetupAs("setup")

SetupCdc == SetupAs("setup_cdc")

InsertFaults ==
    {[conn |-> TRUE, failAt |-> 0]} \cup [conn : {FALSE}, failAt : 0..Len(NewRecords)]

Insert ==
    LET schema_name == load_schema_name_from_catalog
    IN  IF schema_name = NoFile
        THEN /\ last' = Ran("insert", NoName, NoName, <<"exception">>)
             /\ UNCHANGED <<today, file, support, db, prepared, faults>>
        ELSE \E f \in InsertFaults :
                LET c == cdc_insert(schema_name, f.conn, f.failAt)
                IN  /\ Inject(B(f.conn) + B(f.failAt > 0))
                    /\ db' = c.db
                    /\ last' = Ran("insert", schema_name, NoName, c.log)
                    /\ UNCHANGED <<today, file, support, prepared>>

\* the faults the environment can inject into one deletion by prefix: the
\* connection fails, the SELECT fails, or a DROP fails after a strict part
\* of the matching schemas was dropped
DeleteFaults(prefix) ==
    {[conn |-> TRUE, sel |-> FALSE, drop |-> FALSE, dropped |-> {}],
     [conn |-> FALSE, sel |-> TRUE, drop |-> FALSE, dropped |-> {}],
     [conn |-> FALSE, sel |-> FALSE, drop |-> FALSE, dropped |-> {}]}
    \cup {[conn |-> FALSE, sel |-> FALSE, drop |-> TRUE, dropped |-> S] :
             S \in (SUBSET MatchingSchemas(db, prefix)) \ {MatchingSchemas(db, prefix)}}

Teardown ==
    \E f \in DeleteFaults(Yesterday(today)) :
        LET c == teardown(f.conn, f.sel, f.drop, f.dropped)
        IN  /\ Inject(B(f.conn) + B(f.sel) + B(f.drop))
            /\ db' = c.db
            /\ last' = Ran("teardown", NoName,
                           IF Has(c.log, "execute") THEN Yesterday(today) ELSE NoName,
                           c.log)
            /\ UNCHANGED <<today, file, support, prepared>>

FinalTeardown ==
    LET schema_name == load_schema_name_from_catalog
    IN  \E f \in DeleteFaults(schema_name) :
            LET c == final_teardown(f.conn, f.sel, f.drop, f.dropped)
            IN  /\ schema_name = NoFile => ~f.sel /\ ~f.drop
                /\ Inject(B(f.conn) + B(f.sel) + B(f.drop))
                /\ db' = c.db
                /\ last' = Ran("final_teardown",
                               IF Has(c.log, "connect") THEN schema_name ELSE NoName,
                               IF Has(c.log, "execute") THEN schema_name ELSE NoName,
                               c.log)
                /\ UNCHANGED <<today, file, support, prepared>>

Next ==
    \/ Tick
    \/ Prepare
    \/ Setup
    \/ SetupCdc
    \/ Insert
    \/ Teardown
    \/ FinalTeardown

Spec == Init /\ [][Next]_vars

----------------------------------------------------------------------------
(* Vocabulary of the properties                                            *)

\* the rows of the fixture table of schema n (none if it does not exist)
Rows(d, n) == IF HasTable(d, n, table_name) THEN d[n][table_name] ELSE <<>>

AsSet(rows) == {rows[i] : i \in 1..Len(rows)}

Ids(rows) == {rows[i][1] : i \in 1..Len(rows)}

NoDuplicateIds(rows) == Cardinality(Ids(rows)) = Len(rows)

SeedSet == AsSet(SeedRecords)

NewSet == AsSet(NewRecords)

\* name begins with the characters of prefix, taken literally
StartsWith(name, prefix) ==
    Len(name) >= Len(prefix) /\ SubSeq(name, 1, Len(prefix)) = prefix

\* the date stamp of clock day n
DateStamp(n) == strftime(fromordinal(n))

\* name carries the date stamp of a day before day n
DatedBefore(name, n) == \E k \in 0..(n - 1) : StartsWith(name, DateStamp(k))

Returned(l) == ExitStatus(l.log) = 0

IsSetup(l) == l.cmd \in {"setup", "setup_cdc"}

\* every element e of log is directly followed by f
Followed(log, e, f) ==
    \A i \in 1..Len(log) : log[i] = e => i < Len(log) /\ log[i + 1] = f

\* the log shows insert_records catching an error
InsertFailed(log) ==
    \E i \in 1..Len(log) :
        log[i] = "insert_records" /\ \E j \in (i + 1)..Len(log) : log[j] = "error"

----------------------------------------------------------------------------
(* C1: every setup, setup_cdc, insert and final_teardown addresses the     *)
(* schema name written by the most recent prepare: the persisted file      *)
(* always holds that name (only prepare changes it), the name a command    *)
(* reads is that name, and it is the name the command's statements act on  *)
(* (the schema a setup creates, the prefix a final_teardown deletes by).   *)
C1_OneActiveSchema ==
    /\ file = prepared
    /\ last.schema # NoName => last.schema = prepared
    /\ last.prefix # NoName /\ last.cmd = "final_teardown" => last.prefix = prepared
    /\ IsSetup(last) /\ Returned(last) /\ ~Has(last.log, "error")
          => HasTable(db, prepared, table_name) /\ support = prepared

\* an insert addresses the name of a second prepare, not the name the
\* earlier setup used
C1_Witness ==
    /\ last.cmd = "insert"
    /\ last.schema = prepared
    /\ support # NoName
    /\ support # prepared

(* C2: final_teardown deletes exactly the schema named in the persisted    *)
(* file: after it completes without error that schema is gone and every    *)
(* other schema that existed before still exists.                          *)
C2_FinalTeardownExact ==
    [][FinalTeardown /\ Returned(last')
          => DOMAIN db' = (DOMAIN db) \ {file}]_vars

(* C3 as stated: after a teardown that completes without error no schema   *)
(* dated before today remains.                                             *)
C3_NoSchemaBeforeToday ==
    [][Teardown /\ Returned(last')
          => \A n \in DOMAIN db' : ~DatedBefore(n, today)]_vars

(* C3 as amended: after a teardown that completes without error no schema  *)
(* whose name starts with yesterday's date stamp remains.                  *)
C3_NoSchemaOfYesterday ==
    [][Teardown /\ Returned(last')
          => \A n \in DOMAIN db' : ~StartsWith(n, DateStamp(today - 1))]_vars

\* a teardown has dropped a schema and left one that is older than yesterday
C3_Witness ==
    /\ last.cmd = "teardown"
    /\ Returned(last)
    /\ Count(last.log, "execute") >= 2
    /\ \E n \in DOMAIN db : DatedBefore(n, today - 1)

(* C4: teardown deletes only schemas whose name starts with yesterday's    *)
(* date stamp: it creates nothing, every schema it removes starts with     *)
(* that stamp, every schema that stays keeps its contents, so every schema *)
(* dated today (the current run's among them) is there unchanged, and the  *)
(* persisted schema-name file is unchanged.                                *)
C4_TeardownFrame ==
    [][Teardown
          => /\ file' = file
             /\ DOMAIN db' \subseteq DOMAIN db
             /\ \A n \in DOMAIN db :
                   /\ n \notin DOMAIN db' => StartsWith(n, DateStamp(today - 1))
                   /\ n \in DOMAIN db' => db'[n] = db[n]
                   /\ StartsWith(n, DateStamp(today)) => n \in DOMAIN db']_vars

\* a teardown has dropped a schema while the current run's schema, dated
\* today and seeded, is still there
C4_Witness ==
    /\ last.cmd = "teardown"
    /\ Returned(last)
    /\ Count(last.log, "execute") >= 2
    /\ StartsWith(file, DateStamp(today))
    /\ SeedSet \subseteq AsSet(Rows(db, file))

(* C5 as stated: whenever setup (or setup_cdc) has returned, the fixture   *)
(* table of the active schema holds exactly the three seed records,        *)
(* whatever ran before.                                                    *)
C5_ExactlySeedAfterSetup ==
    IsSetup(last) /\ Returned(last) => Rows(db, last.schema) = SeedRecords

(* C5 as amended: whenever setup (or setup_cdc) has returned with none of  *)
(* its statements rejected, the fixture table of the active schema holds   *)
(* each of the three seed records once, and besides them only the records  *)
(* 4 and 5 that an earlier insert left there.                              *)
C5_SeedAfterCleanSetup ==
    IsSetup(last) /\ Returned(last) /\ ~Has(last.log, "error")
        => LET rows == Rows(db, last.schema)
           IN  /\ SeedSet \subseteq AsSet(rows)
               /\ AsSet(rows) \subseteq SeedSet \cup NewSet
               /\ NoDuplicateIds(rows)
               /\ AsSet(rows) # SeedSet => AsSet(rows) = SeedSet \cup NewSet

\* a setup_cdc has returned on a table that an insert had filled first
C5_Witness ==
    /\ last.cmd = "setup_cdc"
    /\ Returned(last)
    /\ ~Has(last.log, "error")
    /\ Rows(db, last.schema) = NewRecords \o SeedRecords

(* C6: an insert on the table a setup has seeded yields exactly the five   *)
(* records 1..5 with their names and no duplicate primary key; and no      *)
(* setup, setup_cdc or insert, in any order and any number of times,       *)
(* changes a row that exists; one whose records are in the table already   *)
(* changes nothing, so the row count stays.                                *)
C6_UpsertIdempotent ==
    [][Setup \/ SetupCdc \/ Insert
          => LET before == Rows(db, file)
                 after  == Rows(db', file)
             IN  /\ Len(after) >= Len(before)
                 /\ SubSeq(after, 1, Len(before)) = before
                 /\ NoDuplicateIds(before) => NoDuplicateIds(after)
                 /\ (Setup \/ SetupCdc) /\ SeedSet \subseteq AsSet(before)
                       => after = before
                 /\ Insert /\ NewSet \subseteq AsSet(before) => after = before
                 /\ (Insert /\ before = SeedRecords /\ ~Has(last'.log, "error")
                        /\ Returned(last'))
                       => after = SeedRecords \o NewRecords]_vars

\* a setup has been repeated on the table that holds the five records
C6_Witness ==
    /\ last.cmd = "setup"
    /\ Returned(last)
    /\ Count(last.log, "commit") = 3
    /\ Rows(db, last.schema) = SeedRecords \o NewRecords

(* C7: no command that has opened a database connection ends with the      *)
(* connection still open.                                                  *)
C7_ConnectionClosed ==
    Has(last.log, "connect") => Has(last.log, "close")

(* C8: in setup, setup_cdc and insert a rejected statement is caught and   *)
(* rolled back, the remaining provisioning steps are still attempted, the  *)
(* connection is closed and the command ends with exit status 0.           *)
C8_ErrorsSwallowed ==
    (IsSetup(last) \/ last.cmd = "insert") /\ Has(last.log, "execute")
        => /\ Followed(last.log, "error", "rollback")
           /\ Count(last.log, "error") + Count(last.log, "commit")
                 = Count(last.log, "cursor_close")
           /\ IsSetup(last) => /\ Has(last.log, "create_schema")
                               /\ Has(last.log, "create_table")
                               /\ Has(last.log, "insert_records")
           /\ last.cmd = "insert" => Has(last.log, "insert_records")
           /\ last.log[Len(last.log)] = "close"
           /\ ExitStatus(last.log) = 0

\* a setup whose schema creation was rejected went on to fail at the table
\* and at the records, and returned
C8_Witness ==
    /\ last.cmd = "setup"
    /\ Count(last.log, "error") = 3
    /\ Count(last.log, "rollback") = 3
    /\ Returned(last)

(* C9: a connection failure ends the process with exit status 1 before any *)
(* statement is issued, and a failed statement in teardown or              *)
(* final_teardown ends the process with exit status 1.                     *)
C9_FatalErrors ==
    /\ Has(last.log, "connect_error")
          => /\ ExitStatus(last.log) = 1
             /\ Has(last.log, "sys_exit")
             /\ ~Has(last.log, "execute")
             /\ ~Has(last.log, "connect")
    /\ last.cmd \in {"teardown", "final_teardown"} /\ Has(last.log, "error")
          => /\ ExitStatus(last.log) = 1
             /\ Has(last.log, "sys_exit")
             /\ ~Has(last.log, "commit")

\* a teardown has ended with status 1 at a DROP that failed after another
\* schema had been dropped
C9_Witness ==
    /\ last.cmd = "teardown"
    /\ Has(last.log, "error")
    /\ Count(last.log, "execute") >= 3
    /\ ExitStatus(last.log) = 1

(* C10: insert_records is all-or-nothing per batch: no fixture table ever  *)
(* holds a strict, non-empty part of the seed batch or of the insert       *)
(* batch, and a command whose insert_records failed leaves the rows of the *)
(* table as they were.                                                     *)
C10_BatchAtomic ==
    /\ [](\A n \in DOMAIN db :
            /\ Ids(Rows(db, n)) \cap Ids(SeedRecords) \in {{}, Ids(SeedRecords)}
            /\ Ids(Rows(db, n)) \cap Ids(NewRecords) \in {{}, Ids(NewRecords)})
    /\ [][(Setup \/ SetupCdc \/ Insert) /\ InsertFailed(last'.log)
             => Rows(db', file) = Rows(db, file)]_vars

\* an insert was rejected at its second record, after the first had been
\* executed on the existing table
C10_Witness ==
    /\ last.cmd = "insert"
    /\ Has(last.log, "error")
    /\ Count(last.log, "execute") = 2
    /\ HasTable(db, last.schema, table_name)

====
